---- MODULE Spec2Model ----
(***************************************************************************)
(* Model of the email scraper's batch pipeline (src/src/email_spider.py):  *)
(* process_csv (resume ledger, thread pool, session release, ledger        *)
(* write), process_single_enhanced and the fallback chain                  *)
(* get_emails_for_website -> scrape_emails_with_selenium ->                *)
(* click_contact_page, the per-thread Selenium sessions of                 *)
(* get_selenium_driver, and the signal handler handle_exit.                *)
(*                                                                         *)
(* The web is the environment: every fetch, navigation and page read       *)
(* chooses its outcome nondeterministically.  A page is represented by     *)
(* the set of addresses extract_emails_from_html returns for it.           *)
(***************************************************************************)
EXTENDS Integers, Sequences, FiniteSets, TLC

\* ------------------------------------------------------------------ bounds
MaxJobs == 2          \* records in the input file
MaxWorkers == 2       \* largest --workers value tried
MaxRuns == 2          \* invocations of the program, one after the other
MaxSignals == 1       \* SIGINT/SIGTERM deliveries per invocation

\* Thread identities the executor could give out; one more than any pool size.
Threads == 1..(MaxWorkers + 1)

\* ------------------------------------------------------- input and the web
\* A record as parse_row_enhanced returns it; complete = phone and address
\* were both found in the input row.
RecA == [clinic_name |-> "A", maps_url |-> "m1", website |-> "w1", email |-> "", complete |-> TRUE]
RecB == [clinic_name |-> "B", maps_url |-> "m2", website |-> "", email |-> "", complete |-> FALSE]
RecC == [clinic_name |-> "C", maps_url |-> "m3", website |-> "", email |-> "c1", complete |-> FALSE]

RecordSet == {RecA, RecB, RecC}

\* What the "Open website" link of a maps listing can hold.
MapsWebsite(maps_url) == IF maps_url = "m2" THEN "w2" ELSE ""

MapsWebsites == {""} \cup {MapsWebsite(r.maps_url) : r \in RecordSet}

\* The address sets a page can yield.
EmailSets == {{}, {"e1"}, {"e1", "e2"}}

\* All sequences of length n over S.
RECURSIVE SeqsOfLen(_, _)
SeqsOfLen(S, n) ==
  IF n = 0 THEN {<<>>}
  ELSE {Append(s, x) : s \in SeqsOfLen(S, n - 1), x \in S}

\* The input files considered: 1..MaxJobs records, repetitions allowed.
Inputs == UNION {SeqsOfLen(RecordSet, n) : n \in 1..MaxJobs}

\* All orders in which the elements of a finite set can be iterated.
RECURSIVE Orders(_)
Orders(S) ==
  IF S = {} THEN {<<>>}
  ELSE UNION {{<<x>> \o s : s \in Orders(S \ {x})} : x \in S}

\* ---------------------------------------------------------------- state
VARIABLES
  input,               \* the records of the input file (the same in every run)
  runsLeft,            \* invocations still to come
  signalsLeft,         \* signals that may still arrive in this invocation
  ledgerExists,        \* os.path.exists(output_file)
  ledger,              \* the rows of the output file
  ledgerAtStart,       \* history: the rows of the file when this run started
  loaded,              \* history: this run read the ledger successfully
  prevClean,           \* history: the run before this one ran without --force,
                       \*   was not interrupted and none of its jobs raised
  readFailed,          \* history: this run tried to read the ledger and failed
  writes,              \* history: times this run opened the ledger for writing
  pc_main,             \* position of the main thread
  force,               \* --force
  max_workers,         \* --workers
  output_rows,         \* process_csv's output_rows
  nExisting,           \* history: Len(output_rows) after the ledger load
  tasks,               \* process_csv's tasks
  queue,               \* the executor's work queue (indices into tasks)
  threads,             \* number of worker threads the executor has started
  status,              \* per task: the state of its future
  futRows,             \* per task: the rows its future holds
  execs,               \* history: per task, how often a worker started it
  collected,           \* tasks whose future as_completed has yielded
  releaseIdx,          \* position of the release loop in selenium_drivers
  selenium_drivers,    \* the module-level list of created drivers
  sessions,            \* per driver: creator thread and quit count
  thread_local,        \* per thread: thread_local.driver (0 = attribute unset)
  pc,                  \* per thread: position inside process_single_enhanced
  cur,                 \* per thread: index of the task being run
  driver,              \* per thread: the local variable driver
  enhanced_website,    \* per thread: the local variable enhanced_website
  emails_set,          \* per thread: the local variable emails_set
  rows_out,            \* per thread: the local variable rows_out
  trace,               \* history per thread: calls made for the current task
  html,                \* extract_emails_from_html: the argument, as tokens
  extracted,           \* per version of the function: its local variable emails
  xpc,                 \* per version of the function: its position
  links,               \* click_contact_page: the href of each element found
  current_url,         \* click_contact_page: driver.current_url
  cpc,                 \* click_contact_page: its position
  idx,                 \* click_contact_page: position of "for link in links"
  lookupRaised,        \* history: finding or reading the elements raised
  navs,                \* history: the driver.get calls click_contact_page made
  content              \* click_contact_page: what it returns

mainVars == <<pc_main, force, max_workers, output_rows, nExisting, tasks, releaseIdx>>
fileVars == <<ledgerExists, ledger>>
histVars == <<ledgerAtStart, loaded, prevClean, readFailed, writes>>
poolVars == <<queue, threads, status, futRows, execs, collected>>
drvVars == <<selenium_drivers, sessions, thread_local>>
workVars == <<pc, cur, driver, enhanced_website, emails_set, rows_out, trace>>
envVars == <<input, runsLeft, signalsLeft>>
xVars == <<html, extracted, xpc>>
cVars == <<links, current_url, cpc, idx, lookupRaised, navs, content>>
vars == <<mainVars, fileVars, histVars, poolVars, drvVars, workVars, envVars, xVars, cVars>>

NoTrace == [static |-> "none", render |-> "none", renderCalls |-> 0, contactCalls |-> 0,
            resp |-> "none", fetched |-> {}]

TaskIds == 1..Len(tasks)

\* ------------------------------------------------ process_csv: the ledger
\* identifier = website or maps_url
Identifier(rec) == IF rec.website # "" THEN rec.website ELSE rec.maps_url

\* processed_websites = {r["WEBSITE"] for r in existing if r.get("WEBSITE")}
ProcessedWebsites(existing) ==
  {existing[i].WEBSITE : i \in {j \in 1..Len(existing) : existing[j].WEBSITE # ""}}

\* Faulty variant: an identifier is not added once its record is a task.
BuildTasksNoAdd(recs, processed, acc) ==
  acc \o SelectSeq(recs, LAMBDA rec : Identifier(rec) \notin processed)

\* The loop over the input rows: a record whose identifier is already in
\* processed_websites is skipped, any other becomes a task and its identifier
\* is added.
RECURSIVE BuildTasks(_, _, _)
BuildTasks(recs, processed, acc) ==
  IF recs = <<>> THEN acc
  ELSE LET rec == Head(recs)
           identifier == Identifier(rec)
       IN IF identifier \in processed
          THEN BuildTasks(Tail(recs), processed, acc)
          ELSE BuildTasks(Tail(recs), processed \cup {identifier}, Append(acc, rec))

\* ------------------------------------------- extract_emails_from_html
\* The markup is a sequence of tokens.  A word token is a maximal run of the
\* characters [a-z0-9_%+-]; "." and "@" are tokens of their own; every other
\* token (a blank, a tag, "mailto:", a query) begins and ends with a
\* character that no word contains, so that \b holds on both its sides.
MaxItems == 3

\* The two functions of this name: email_spider.py (the pipeline's) and
\* utils.py (the one the tests import).
Versions == {"spider", "utils"}

\* Tokens matching [a-z0-9_%+-]+ under (?i).
WordToks ==
  {"alice", "example", "com", "bob", "domain", "org", "logo", "images", "png",
   "Banner", "banner", "info", "site", "a"}

\* Word tokens matching [a-z]{2,} under (?i).
AlphaToks == WordToks \ {"a"}

\* (?:png|jpg|jpeg|gif|bmp)
ImageExts == {"png", "jpg", "jpeg", "gif", "bmp"}

\* ["logo", "icon", "banner"], the filter of the free-text pass.
NoiseWords == {"logo", "icon", "banner"}

\* ["logo", "icon"], the filter of the mailto pass.
MailtoNoiseWords == {"logo", "icon"}

\* str.lower() on a token of the vocabulary.
Lower(t) ==
  CASE t = "Banner" -> "banner"
    [] t = "MAILTO:" -> "mailto:"
    [] OTHER -> t

\* local@domain.tld written in text.
AddrToks(local, domain, tld) == <<local, "@", domain, ".", tld>>

\* <a href="{scheme}{body}{query}">Mail</a>
Anchor(scheme, body, query) == <<"<a href=">> \o <<scheme>> \o body \o query \o <<">", "Mail", "</a>">>

\* The pieces a page is put together from, each followed by a blank except
\* the line break: addresses in text, a file name that looks like an
\* address, an image tag, mailto links (with a query, with a noise word, with
\* an upper-case scheme, with text that is no address), a mailto: URL written
\* in the text outside any anchor, and a line break.
ItemSet ==
  { AddrToks("alice", "example", "com") \o <<" ">>,
    AddrToks("bob", "domain", "org") \o <<" ">>,
    AddrToks("logo", "images", "png") \o <<" ">>,
    AddrToks("Banner", "site", "com") \o <<" ">>,
    <<"<img src=", "a", ".", "png", ">", " ">>,
    Anchor("mailto:", AddrToks("info", "site", "com"), <<"?", "subject=hi">>) \o <<" ">>,
    Anchor("mailto:", AddrToks("banner", "site", "com"), <<>>) \o <<" ">>,
    Anchor("MAILTO:", AddrToks("info", "site", "com"), <<>>) \o <<" ">>,
    Anchor("mailto:", <<"call us">>, <<>>) \o <<" ">>,
    <<"mailto:">> \o AddrToks("bob", "domain", "org") \o <<" ">>,
    <<"\n">> }

RECURSIVE Concat(_)
Concat(items) == IF items = <<>> THEN <<>> ELSE Head(items) \o Concat(Tail(items))

\* The pages: up to MaxItems pieces one after the other.
Htmls == {Concat(items) : items \in UNION {SeqsOfLen(ItemSet, n) : n \in 0..MaxItems}}

\* [a-z0-9.-]+\.[a-z]{2,} from the word token at k on, greedy: the index of
\* the last token of the longest match, or 0.
RECURSIVE DomainEnd(_, _)
DomainEnd(h, k) ==
  IF k + 2 <= Len(h) /\ h[k + 1] = "." /\ h[k + 2] \in WordToks
  THEN LET e == DomainEnd(h, k + 2)
       IN IF e # 0 THEN e ELSE IF h[k + 2] \in AlphaToks THEN k + 2 ELSE 0
  ELSE 0

\* ([a-z0-9._%+-]+@[a-z0-9.-]+\.[a-z]{2,}) starting with the token at i: the
\* index of its last token, or 0 when it does not match there.
MatchEnd(h, i) ==
  IF i + 2 <= Len(h) /\ h[i] \in WordToks /\ h[i + 1] = "@" /\ h[i + 2] \in WordToks
  THEN DomainEnd(h, i + 2)
  ELSE 0

\* What (?!.*\.(?:png|jpg|jpeg|gif|bmp)) looks for at i: an image extension
\* after a dot anywhere between i and the end of the line ("." does not match
\* a line break).
ImageAhead(h, i) ==
  \E j \in i..(Len(h) - 1) :
     /\ h[j] = "."
     /\ Lower(h[j + 1]) \in ImageExts
     /\ \A k \in i..j : h[k] # "\n"

\* any(word in s.lower() for word in words)
HasNoise(s, words) == \E k \in 1..Len(s) : Lower(s[k]) \in words

\* re.findall(email_regex, html), then the filter on logo, icon and banner.
FreeTextEmails(h) ==
  LET starts == {i \in 1..Len(h) : MatchEnd(h, i) # 0 /\ ~ImageAhead(h, i)}
      matches == {SubSeq(h, i, MatchEnd(h, i)) : i \in starts}
  IN {m \in matches : ~HasNoise(m, NoiseWords)}

\* s.split(sep)[-1]: what follows the last sep, or s itself without any.
AfterLast(s, sep) ==
  IF \E k \in 1..Len(s) : s[k] = sep
  THEN LET k == CHOOSE k \in 1..Len(s) : s[k] = sep /\ \A l \in (k + 1)..Len(s) : s[l] # sep
       IN SubSeq(s, k + 1, Len(s))
  ELSE s

\* s.split(sep)[0]: what precedes the first sep, or s itself without any.
BeforeFirst(s, sep) ==
  IF \E k \in 1..Len(s) : s[k] = sep
  THEN LET k == CHOOSE k \in 1..Len(s) : s[k] = sep /\ \A l \in 1..(k - 1) : s[l] # sep
       IN SubSeq(s, 1, k - 1)
  ELSE s

\* soup.find_all("a", href=re.compile(r"^mailto:", re.I)): the href values
\* of the anchors whose href starts with mailto: in any letter case.
MailtoHrefs(h) ==
  LET opens == {i \in 1..Len(h) : h[i] = "<a href="}
      close(i) == CHOOSE j \in (i + 1)..Len(h) :
                     h[j] = ">" /\ \A l \in (i + 1)..(j - 1) : h[l] # ">"
      hrefs == {SubSeq(h, i + 1, close(i) - 1) : i \in opens}
  IN {href \in hrefs : href # <<>> /\ Lower(href[1]) = "mailto:"}

\* email_spider.py: a.get("href").split("mailto:")[-1].split("?")[0], kept
\* when it is not empty and holds neither logo nor icon.
SpiderMailtoEmails(h) ==
  LET cands == {BeforeFirst(AfterLast(href, "mailto:"), "?") : href \in MailtoHrefs(h)}
  IN {email \in cands : email # <<>> /\ ~HasNoise(email, MailtoNoiseWords)}

\* utils.py: re.findall(r'(?i)mailto:([a-z0-9._%+-]+@[a-z0-9.-]+\.[a-z]{2,})',
\* html), kept when it holds neither logo nor icon.
UtilsMailtoEmails(h) ==
  LET starts == {i \in 1..(Len(h) - 1) : Lower(h[i]) = "mailto:" /\ MatchEnd(h, i + 1) # 0}
      matches == {SubSeq(h, i + 1, MatchEnd(h, i + 1)) : i \in starts}
  IN {m \in matches : ~HasNoise(m, MailtoNoiseWords)}

\* ------------------------------------------------------------------ Init
\* The state before the program is first started: no output file yet.
\* ins = the input files considered, runs = the invocations that follow.
PipelineInit(ins, runs) ==
  /\ input \in ins
  /\ runsLeft = runs
  /\ signalsLeft = 0
  /\ ledgerExists = FALSE
  /\ ledger = <<>>
  /\ ledgerAtStart = <<>>
  /\ loaded = FALSE
  /\ readFailed = FALSE
  /\ writes = 0
  /\ prevClean = FALSE
  /\ pc_main = "idle"
  /\ force = FALSE
  /\ max_workers = 1
  /\ output_rows = <<>>
  /\ nExisting = 0
  /\ tasks = <<>>
  /\ queue = <<>>
  /\ threads = 0
  /\ status = <<>>
  /\ futRows = <<>>
  /\ execs = <<>>
  /\ collected = {}
  /\ releaseIdx = 1
  /\ selenium_drivers = <<>>
  /\ sessions = <<>>
  /\ thread_local = [w \in Threads |-> 0]
  /\ pc = [w \in Threads |-> "idle"]
  /\ cur = [w \in Threads |-> 0]
  /\ driver = [w \in Threads |-> 0]
  /\ enhanced_website = [w \in Threads |-> ""]
  /\ emails_set = [w \in Threads |-> {}]
  /\ rows_out = [w \in Threads |-> <<>>]
  /\ trace = [w \in Threads |-> NoTrace]

\* No call of click_contact_page under observation.
NoContactCall ==
  /\ links = <<>>
  /\ current_url = <<>>
  /\ cpc = "off"
  /\ idx = 1
  /\ lookupRaised = FALSE
  /\ navs = <<>>
  /\ content = <<>>

\* The pipeline with no call of extract_emails_from_html under observation.
InitWith(ins, runs) ==
  /\ PipelineInit(ins, runs)
  /\ html = <<>>
  /\ extracted = [v \in Versions |-> {}]
  /\ xpc = [v \in Versions |-> "off"]
  /\ NoContactCall

\* One invocation, any input file.
Init == InitWith(Inputs, 1)

\* MaxRuns invocations one after the other on the same one-record input file.
InitResume == InitWith(SeqsOfLen(RecordSet, 1), MaxRuns)

\* A new process: module globals and thread state as at import time.
FreshProcess ==
  /\ collected' = {}
  /\ releaseIdx' = 1
  /\ selenium_drivers' = <<>>
  /\ sessions' = <<>>
  /\ thread_local' = [w \in Threads |-> 0]
  /\ threads' = 0
  /\ pc' = [w \in Threads |-> "idle"]
  /\ cur' = [w \in Threads |-> 0]
  /\ driver' = [w \in Threads |-> 0]
  /\ enhanced_website' = [w \in Threads |-> ""]
  /\ emails_set' = [w \in Threads |-> {}]
  /\ rows_out' = [w \in Threads |-> <<>>]
  /\ trace' = [w \in Threads |-> NoTrace]

\* Faulty variant: --force is not looked at.
TryLoadIgnoringForce(f, exists) == exists

\* "if not force and os.path.exists(output_file)"
TryLoad(f, exists) == ~f /\ exists

\* Faulty variant: the rows are taken over although reading them failed.
LoadLedgerUnguarded(tryLoad, readOk, file) == IF tryLoad THEN file ELSE <<>>

\* "if not force and os.path.exists(output_file): try: existing = list(...)":
\* the rows of the file, or nothing when the file is not read or reading it
\* raises (except Exception: only logged, output_rows stays []).
LoadLedger(tryLoad, readOk, file) == IF tryLoad /\ readOk THEN file ELSE <<>>

\* main() -> process_csv up to and including executor.submit of every task.
\* f = --force, n = --workers, readOk = the ledger file could be read.
StartRun(f, n, readOk) ==
  /\ pc_main \in {"idle", "done", "exited"}
  /\ runsLeft > 0
  /\ (f \/ ~ledgerExists) => readOk
  /\ LET tryLoad == TryLoad(f, ledgerExists)
         existing == LoadLedger(tryLoad, readOk, ledger)
         processed_websites == ProcessedWebsites(existing)
         ts == BuildTasks(input, processed_websites, <<>>)
     IN /\ output_rows' = existing
        /\ nExisting' = Len(existing)
        /\ loaded' = (tryLoad /\ readOk)
        /\ readFailed' = (tryLoad /\ ~readOk)
        /\ tasks' = ts
        /\ queue' = [i \in 1..Len(ts) |-> i]
        /\ status' = [i \in 1..Len(ts) |-> "pending"]
        /\ futRows' = [i \in 1..Len(ts) |-> <<>>]
        /\ execs' = [i \in 1..Len(ts) |-> 0]
  /\ force' = f
  /\ max_workers' = n
  /\ ledgerAtStart' = ledger
  /\ writes' = 0
  /\ prevClean' = (pc_main = "done" /\ ~force /\ \A t \in TaskIds : status[t] = "returned")
  /\ runsLeft' = runsLeft - 1
  /\ signalsLeft' = MaxSignals
  /\ pc_main' = "pool"
  /\ FreshProcess
  /\ UNCHANGED <<fileVars, input, xVars, cVars>>

\* ---------------------------------------------------- the worker threads
\* Faulty variant: the pool size is not passed on, threads are started freely.
CanSpawnAlways == TRUE

\* ThreadPoolExecutor(max_workers=max_workers): a further worker thread is
\* started only while fewer than max_workers exist.
CanSpawn == threads < max_workers

\* Faulty variant: the attribute is never found, a driver is set up each time.
NoThreadDriver(w) == 0

\* Faulty variant: the driver cached in a module global shared by all threads.
SharedDriver(w) == IF selenium_drivers # <<>> THEN selenium_drivers[1] ELSE 0

\* thread_local.driver as the calling thread sees it (0: no such attribute).
ThreadDriver(w) == thread_local[w]

\* A worker thread takes the next work item and calls
\* process_single_enhanced, which starts with driver = get_selenium_driver():
\* the attribute is either there (the driver is returned) or has to be set up.
TakeTask(w) ==
  /\ queue # <<>>
  /\ pc[w] = "idle"
  /\ w <= threads \/ (w = threads + 1 /\ CanSpawn)
  /\ threads' = IF w > threads THEN w ELSE threads
  /\ cur' = [cur EXCEPT ![w] = Head(queue)]
  /\ queue' = Tail(queue)
  /\ status' = [status EXCEPT ![Head(queue)] = "running"]
  /\ execs' = [execs EXCEPT ![Head(queue)] = @ + 1]
  /\ driver' = [driver EXCEPT ![w] = ThreadDriver(w)]
  /\ pc' = [pc EXCEPT ![w] = IF ThreadDriver(w) # 0 THEN "enhance" ELSE "setup"]
  /\ UNCHANGED <<mainVars, fileVars, histVars, drvVars, envVars, xVars, cVars>>
  /\ UNCHANGED <<futRows, collected, enhanced_website, emails_set, rows_out, trace>>

\* get_selenium_driver, attribute absent: driver = setup_selenium().
\* ok = FALSE: it raises, and the exception leaves process_single_enhanced.
SetupSelenium(w, ok) ==
  /\ pc[w] = "setup"
  /\ IF ok
     THEN /\ sessions' = Append(sessions, [creator |-> w, quits |-> 0, failed |-> FALSE,
                                             afterExit |-> pc_main = "draining"])
          /\ driver' = [driver EXCEPT ![w] = Len(sessions) + 1]
          /\ pc' = [pc EXCEPT ![w] = "register"]
     ELSE /\ pc' = [pc EXCEPT ![w] = "raised"]
          /\ UNCHANGED <<sessions, driver>>
  /\ UNCHANGED <<mainVars, fileVars, histVars, poolVars, envVars, xVars, cVars>>
  /\ UNCHANGED <<selenium_drivers, thread_local>>
  /\ UNCHANGED <<cur, enhanced_website, emails_set, rows_out, trace>>

\* thread_local.driver = driver; selenium_drivers.append(driver);
\* return thread_local.driver
RegisterDriver(w) ==
  /\ pc[w] = "register"
  /\ thread_local' = [thread_local EXCEPT ![w] = driver[w]]
  /\ selenium_drivers' = Append(selenium_drivers, driver[w])
  /\ pc' = [pc EXCEPT ![w] = "enhance"]
  /\ UNCHANGED <<mainVars, fileVars, histVars, poolVars, envVars, xVars, cVars>>
  /\ UNCHANGED <<sessions, cur, driver, enhanced_website, emails_set, rows_out, trace>>

\* if not phone or not website or not address
NeedsMaps(t) == ~t.complete \/ t.website = ""

\* One output row; ADDRESS, CITY and PHONE_NUMBER are not modelled.
Row(name, website, email) == [FIRSTNAME |-> name, WEBSITE |-> website, EMAIL |-> email]

\* Faulty variant: no placeholder row when nothing was found.
RowsForNoPlaceholder(name, website, emails) ==
  {[i \in 1..Len(o) |-> Row(name, website, o[i])] : o \in Orders(emails)}

\* rows_out: one row per address in the iteration order of the set, or one
\* row with an empty EMAIL.
RowsFor(name, website, emails) ==
  IF emails # {}
  THEN {[i \in 1..Len(o) |-> Row(name, website, o[i])] : o \in Orders(emails)}
  ELSE {<<Row(name, website, "")>>}

\* emails_set is known: build rows_out and return it.
Finish(w, website, emails) ==
  /\ emails_set' = [emails_set EXCEPT ![w] = emails]
  /\ \E rs \in RowsFor(tasks[cur[w]].clinic_name, website, emails) :
       rows_out' = [rows_out EXCEPT ![w] = rs]
  /\ pc' = [pc EXCEPT ![w] = "returned"]

\* The session d no longer answers: every later command sent to it raises.
SessionFailed(d) == d # 0 /\ sessions[d].failed

\* The session d has been quit: the browser is gone.
SessionQuit(d) == d # 0 /\ sessions[d].quits > 0

\* No command sent to d can succeed any more.
SessionDead(d) == SessionFailed(d) \/ SessionQuit(d)

\* The maps enrichment and the choice of the email strategy.
\* scrape_google_maps_data navigates the session to the listing and returns
\* the website it finds, or "" (nothing found, or any failure, all caught;
\* a failed session finds nothing).
\* Then: a parsed email is used as it is; with a website the scrape follows;
\* with neither, emails_set = set().
Enhance(w, scraped) ==
  /\ pc[w] = "enhance"
  /\ LET t == tasks[cur[w]]
         site == IF t.website # "" THEN t.website ELSE scraped
     IN /\ scraped \in (IF NeedsMaps(t) /\ ~SessionDead(driver[w])
                       THEN {"", MapsWebsite(t.maps_url)} ELSE {""})
        /\ enhanced_website' = [enhanced_website EXCEPT ![w] = site]
        /\ IF t.email # "" THEN Finish(w, site, {t.email})
           ELSE IF site = "" THEN Finish(w, site, {})
           ELSE /\ pc' = [pc EXCEPT ![w] = "static"]
                /\ UNCHANGED <<emails_set, rows_out>>
  /\ UNCHANGED <<mainVars, fileVars, histVars, poolVars, drvVars, envVars, xVars, cVars>>
  /\ UNCHANGED <<cur, driver, trace>>

\* What requests.get(url, ...) comes to: it raises (timeout, no connection),
\* or it returns a response whose status is an error (4xx, 5xx) or a success.
\* It does not raise for an error status, and the status is never looked at.
Responses == {"raised", "non2xx", "2xx"}

\* What the static fetch came to, for the history.
StaticOutcome(ok, emails) ==
  IF ~ok THEN "failed" ELSE IF emails = {} THEN "empty" ELSE "found"

\* Faulty variant: the rendering strategy is tried whatever the static one found.
StaticNeverFinal(emails) == FALSE

\* Faulty variant: the static result is returned whatever it holds.
StaticAlwaysFinal(emails) == TRUE

\* get_emails_for_website: "if emails: return emails", else fall back.
StaticIsFinal(emails) == emails # {}

\* get_emails_for_website: fetch_emails_with_requests(url), and when that
\* set is empty, driver = get_selenium_driver() and driver.get(url) is issued
\* (scrape_emails_with_selenium).
\* resp = "raised": requests.get raised and the handler returned set();
\* otherwise emails is what extract_emails_from_html found in resp.text,
\* the body of the page or of the error page.
StaticFetch(w, resp, emails) ==
  /\ pc[w] = "static"
  /\ resp = "raised" => emails = {}
  /\ IF StaticIsFinal(emails)
     THEN /\ trace' = [trace EXCEPT ![w].static = StaticOutcome(resp # "raised", emails),
                                    ![w].resp = resp,
                                    ![w].fetched = emails]
          /\ Finish(w, enhanced_website[w], emails)
          /\ UNCHANGED driver
     ELSE /\ trace' = [trace EXCEPT ![w].static = StaticOutcome(resp # "raised", emails),
                                    ![w].resp = resp,
                                    ![w].fetched = emails,
                                    ![w].renderCalls = @ + 1]
          /\ driver' = [driver EXCEPT ![w] = ThreadDriver(w)]
          /\ pc' = [pc EXCEPT ![w] = "render_nav"]
          /\ UNCHANGED <<emails_set, rows_out>>
  /\ UNCHANGED <<mainVars, fileVars, histVars, poolVars, drvVars, envVars, xVars, cVars>>
  /\ UNCHANGED <<cur, enhanced_website>>

\* driver.get(url) raises: "Error loading base page", return emails_found.
\* crash = TRUE: it raises because the session died (from now on it is
\* failed); FALSE: the page did not load in time, the session lives on.
RenderLoadFails(w, crash) ==
  /\ pc[w] = "render_nav"
  /\ SessionFailed(driver[w]) => crash
  /\ trace' = [trace EXCEPT ![w].render = "loadfail"]
  /\ sessions' = IF crash /\ driver[w] # 0
                 THEN [sessions EXCEPT ![driver[w]].failed = TRUE]
                 ELSE sessions
  /\ Finish(w, enhanced_website[w], {})
  /\ UNCHANGED <<mainVars, fileVars, histVars, poolVars, envVars, xVars, cVars>>
  /\ UNCHANGED <<selenium_drivers, thread_local>>
  /\ UNCHANGED <<cur, driver, enhanced_website>>

\* driver.page_source (or the extraction) raises outside any try block.
RenderSourceRaises(w) ==
  /\ pc[w] = "render_nav"
  /\ ~SessionDead(driver[w])
  /\ trace' = [trace EXCEPT ![w].render = "raised"]
  /\ pc' = [pc EXCEPT ![w] = "raised"]
  /\ UNCHANGED <<mainVars, fileVars, histVars, poolVars, drvVars, envVars, xVars, cVars>>
  /\ UNCHANGED <<cur, driver, enhanced_website, emails_set, rows_out>>

\* Faulty variant: the base page's result is returned whatever it holds.
BaseAlwaysFinal(emails) == TRUE

\* scrape_emails_with_selenium: "if emails_found:" keeps the base page's set,
\* else click_contact_page is tried.
BaseIsFinal(emails) == emails # {}

\* The base page loaded; its addresses are extracted.
RenderExtract(w, emails) ==
  /\ pc[w] = "render_nav"
  /\ ~SessionDead(driver[w])
  /\ trace' = [trace EXCEPT ![w].render = IF emails = {} THEN "empty" ELSE "found"]
  /\ IF BaseIsFinal(emails)
     THEN Finish(w, enhanced_website[w], emails)
     ELSE /\ pc' = [pc EXCEPT ![w] = "contact"]
          /\ UNCHANGED <<emails_set, rows_out>>
  /\ UNCHANGED <<mainVars, fileVars, histVars, poolVars, drvVars, envVars, xVars, cVars>>
  /\ UNCHANGED <<cur, driver, enhanced_website>>

\* click_contact_page(driver) and the extraction from what it returns; an
\* empty page ("") yields the empty set.
ClickContact(w, emails) ==
  /\ pc[w] = "contact"
  /\ SessionDead(driver[w]) => emails = {}
  /\ trace' = [trace EXCEPT ![w].contactCalls = @ + 1]
  /\ Finish(w, enhanced_website[w], emails)
  /\ UNCHANGED <<mainVars, fileVars, histVars, poolVars, drvVars, envVars, xVars, cVars>>
  /\ UNCHANGED <<cur, driver, enhanced_website>>

\* The work item stores the outcome in its future (set_result or
\* set_exception) and the worker thread is free again.
Deliver(w) ==
  /\ pc[w] \in {"returned", "raised"}
  /\ status' = [status EXCEPT ![cur[w]] = pc[w]]
  /\ futRows' = [futRows EXCEPT ![cur[w]] = IF pc[w] = "returned" THEN rows_out[w] ELSE <<>>]
  /\ pc' = [pc EXCEPT ![w] = "idle"]
  /\ cur' = [cur EXCEPT ![w] = 0]
  /\ driver' = [driver EXCEPT ![w] = 0]
  /\ enhanced_website' = [enhanced_website EXCEPT ![w] = ""]
  /\ emails_set' = [emails_set EXCEPT ![w] = {}]
  /\ rows_out' = [rows_out EXCEPT ![w] = <<>>]
  /\ trace' = [trace EXCEPT ![w] = NoTrace]
  /\ UNCHANGED <<mainVars, fileVars, histVars, drvVars, envVars, xVars, cVars>>
  /\ UNCHANGED <<queue, threads, execs, collected>>

\* ------------------------------------------------------- the main thread
\* Faulty variant: the exception of fut.result() is not caught.
OnTaskErrorPropagates(rows) == [next |-> "crashed", rows |-> rows]

\* except Exception as e: logging.error(...): the loop goes on, output_rows
\* is left as it was.
OnTaskError(rows) == [next |-> "pool", rows |-> rows]

\* as_completed yields a finished future; output_rows.extend(fut.result()).
Collect(t) ==
  /\ pc_main = "pool"
  /\ t \in TaskIds \ collected
  /\ status[t] \in {"returned", "raised"}
  /\ collected' = collected \cup {t}
  /\ LET after == IF status[t] = "returned"
                  THEN [next |-> "pool", rows |-> output_rows \o futRows[t]]
                  ELSE OnTaskError(output_rows)
     IN /\ output_rows' = after.rows
        /\ pc_main' = after.next
  /\ UNCHANGED <<force, max_workers, nExisting, tasks, releaseIdx>>
  /\ UNCHANGED <<fileVars, histVars, drvVars, workVars, envVars, xVars, cVars>>
  /\ UNCHANGED <<queue, threads, status, futRows, execs>>

\* Faulty variant: the with block is left without waiting for the futures.
AllYieldedEarly == TRUE

\* "for fut in as_completed(futures)" is exhausted: every future was yielded.
AllYielded == collected = TaskIds

\* Every future has been yielded: the with block ends, the release loop starts.
ShutdownPool ==
  /\ pc_main = "pool"
  /\ AllYielded
  /\ pc_main' = "release"
  /\ releaseIdx' = 1
  /\ UNCHANGED <<force, max_workers, output_rows, nExisting, tasks>>
  /\ UNCHANGED <<fileVars, histVars, poolVars, drvVars, workVars, envVars, xVars, cVars>>

\* drv.quit()
Quit(sess, d) == [sess EXCEPT ![d].quits = @ + 1]

\* for drv in <list>: drv.quit(), failures swallowed.
RECURSIVE QuitEach(_, _)
QuitEach(sess, list) ==
  IF list = <<>> THEN sess ELSE QuitEach(Quit(sess, Head(list)), Tail(list))

\* One iteration of "for drv in selenium_drivers: drv.quit()" in process_csv.
ReleaseStep ==
  /\ pc_main = "release"
  /\ releaseIdx <= Len(selenium_drivers)
  /\ sessions' = Quit(sessions, selenium_drivers[releaseIdx])
  /\ releaseIdx' = releaseIdx + 1
  /\ UNCHANGED <<pc_main, force, max_workers, output_rows, nExisting, tasks>>
  /\ UNCHANGED <<fileVars, histVars, poolVars, workVars, envVars, xVars, cVars>>
  /\ UNCHANGED <<selenium_drivers, thread_local>>

\* open(output_file, "w"): the file exists and is empty.
WriteOpen ==
  /\ pc_main = "release"
  /\ releaseIdx > Len(selenium_drivers)
  /\ ledgerExists' = TRUE
  /\ ledger' = <<>>
  /\ pc_main' = "writing"
  /\ writes' = writes + 1
  /\ UNCHANGED <<force, max_workers, output_rows, nExisting, tasks, releaseIdx>>
  /\ UNCHANGED <<ledgerAtStart, loaded, prevClean, readFailed>>
  /\ UNCHANGED <<poolVars, drvVars, workVars, envVars, xVars, cVars>>

\* writer.writeheader(); for r in output_rows: writer.writerow(r); close.
WriteRows ==
  /\ pc_main = "writing"
  /\ ledger' = output_rows
  /\ pc_main' = "done"
  /\ UNCHANGED <<force, max_workers, output_rows, nExisting, tasks, releaseIdx>>
  /\ UNCHANGED <<ledgerExists, histVars, poolVars, drvVars, workVars, envVars, xVars, cVars>>

\* SIGINT or SIGTERM: handle_exit quits every driver in selenium_drivers and
\* calls sys.exit(0).  SystemExit leaves process_csv; raised inside the with
\* block, the executor's shutdown(wait=True) first lets the workers finish
\* the queued work ("draining").
HandleExit ==
  /\ pc_main \in {"pool", "release", "writing"}
  /\ signalsLeft > 0
  /\ signalsLeft' = signalsLeft - 1
  /\ sessions' = QuitEach(sessions, selenium_drivers)
  /\ pc_main' = IF pc_main = "pool" THEN "draining" ELSE "exited"
  /\ UNCHANGED <<force, max_workers, output_rows, nExisting, tasks, releaseIdx>>
  /\ UNCHANGED <<fileVars, histVars, poolVars, workVars, input, runsLeft, xVars, cVars>>
  /\ UNCHANGED <<selenium_drivers, thread_local>>

\* The signal arrives while the release loop is inside "try: drv.quit()":
\* the bare "except:" swallows SystemExit and the loop goes on with the next
\* driver.  quitDone: the interrupted drv.quit() had already taken effect.
HandleExitSwallowed(quitDone) ==
  /\ pc_main = "release"
  /\ releaseIdx <= Len(selenium_drivers)
  /\ signalsLeft > 0
  /\ signalsLeft' = signalsLeft - 1
  /\ LET s1 == IF quitDone THEN Quit(sessions, selenium_drivers[releaseIdx]) ELSE sessions
     IN sessions' = QuitEach(s1, selenium_drivers)
  /\ releaseIdx' = releaseIdx + 1
  /\ UNCHANGED <<pc_main, force, max_workers, output_rows, nExisting, tasks>>
  /\ UNCHANGED <<fileVars, histVars, poolVars, workVars, input, runsLeft, xVars, cVars>>
  /\ UNCHANGED <<selenium_drivers, thread_local>>

\* The interrupted process ends once every worker thread has run dry.
DrainDone ==
  /\ pc_main = "draining"
  /\ queue = <<>>
  /\ \A w \in Threads : pc[w] = "idle"
  /\ pc_main' = "exited"
  /\ UNCHANGED <<force, max_workers, output_rows, nExisting, tasks, releaseIdx>>
  /\ UNCHANGED <<fileVars, histVars, poolVars, drvVars, workVars, envVars, xVars, cVars>>

\* ------------------------------------------------------------------ Next
Worker(w) ==
  \/ TakeTask(w)
  \/ \E ok \in BOOLEAN : SetupSelenium(w, ok)
  \/ RegisterDriver(w)
  \/ \E scraped \in MapsWebsites : Enhance(w, scraped)
  \/ \E resp \in Responses, emails \in EmailSets : StaticFetch(w, resp, emails)
  \/ \E crash \in BOOLEAN : RenderLoadFails(w, crash)
  \/ RenderSourceRaises(w)
  \/ \E emails \in EmailSets : RenderExtract(w, emails)
  \/ \E emails \in EmailSets : ClickContact(w, emails)
  \/ Deliver(w)

Next ==
  \/ \E f \in BOOLEAN, n \in 1..MaxWorkers, readOk \in BOOLEAN : StartRun(f, n, readOk)
  \/ \E w \in Threads : Worker(w)
  \/ \E t \in TaskIds : Collect(t)
  \/ ShutdownPool
  \/ ReleaseStep
  \/ WriteOpen
  \/ WriteRows
  \/ HandleExit
  \/ \E quitDone \in BOOLEAN : HandleExitSwallowed(quitDone)
  \/ DrainDone

Spec == Init /\ [][Next]_vars

SpecResume == InitResume /\ [][Next]_vars

\* ------------------------------------- extract_emails_from_html, called
\* Both functions are about to be called on the same page.
InitExtract ==
  /\ PipelineInit({<<RecA>>}, 0)
  /\ html \in Htmls
  /\ extracted = [v \in Versions |-> {}]
  /\ xpc = [v \in Versions |-> "start"]
  /\ NoContactCall

\* emails = set(); for match in re.findall(email_regex, html): ... (the same
\* lines in both versions).
FreeTextPass(v) ==
  /\ xpc[v] = "start"
  /\ extracted' = [extracted EXCEPT ![v] = FreeTextEmails(html)]
  /\ xpc' = [xpc EXCEPT ![v] = "mailto"]
  /\ UNCHANGED <<mainVars, fileVars, histVars, poolVars, drvVars, workVars, envVars, html, cVars>>

\* email_spider.py: the mailto links of the parsed page; return emails.
SpiderMailtoPass ==
  /\ xpc["spider"] = "mailto"
  /\ extracted' = [extracted EXCEPT !["spider"] = @ \cup SpiderMailtoEmails(html)]
  /\ xpc' = [xpc EXCEPT !["spider"] = "returned"]
  /\ UNCHANGED <<mainVars, fileVars, histVars, poolVars, drvVars, workVars, envVars, html, cVars>>

\* utils.py: the mailto: matches in the raw text; return emails.
UtilsMailtoPass ==
  /\ xpc["utils"] = "mailto"
  /\ extracted' = [extracted EXCEPT !["utils"] = @ \cup UtilsMailtoEmails(html)]
  /\ xpc' = [xpc EXCEPT !["utils"] = "returned"]
  /\ UNCHANGED <<mainVars, fileVars, histVars, poolVars, drvVars, workVars, envVars, html, cVars>>

NextExtract ==
  \/ \E v \in Versions : FreeTextPass(v)
  \/ SpiderMailtoPass
  \/ UtilsMailtoPass

SpecExtract == InitExtract /\ [][NextExtract]_vars

\* --------------------------------------------------- click_contact_page
\* A URL is what urlparse makes of it: scheme, netloc, and the path as
\* tokens ("/" is a token of its own).
MaxLinks == 2

\* link.get_attribute("href") of an element without the attribute: None.
NoHref == [scheme |-> "", netloc |-> "", path |-> <<>>]

\* The href values the elements found may have: none, a mailto: URL (no
\* netloc), and two pages of the site.
HrefSet ==
  { NoHref,
    [scheme |-> "mailto", netloc |-> "", path |-> <<"info@x.com">>],
    [scheme |-> "http", netloc |-> "x.com", path |-> <<"/", "about">>],
    [scheme |-> "http", netloc |-> "x.com", path |-> <<"/", "contact-us", "/">>] }

\* The page the session is on when click_contact_page is called.
BaseUrls ==
  { [scheme |-> "http", netloc |-> "x.com", path |-> <<>>],
    [scheme |-> "http", netloc |-> "x.com", path |-> <<"/">>],
    [scheme |-> "http", netloc |-> "x.com", path |-> <<"/", "home", "/">>] }

\* Faulty variant: a scheme alone makes a URL valid.
is_valid_url_scheme_only(url) == url.scheme # ""

\* utils.is_valid_url: bool(result.scheme and result.netloc)
is_valid_url(url) == url.scheme # "" /\ url.netloc # ""

\* str.rstrip("/") on the tokens of a path.
RECURSIVE Rstrip(_)
Rstrip(path) ==
  IF path # <<>> /\ path[Len(path)] = "/"
  THEN Rstrip(SubSeq(path, 1, Len(path) - 1))
  ELSE path

\* fallback_url = driver.current_url.rstrip("/") + "/contact"
FallbackUrl(url) == [url EXCEPT !.path = Rstrip(@) \o <<"/contact">>]

\* driver.page_source once the session is on url.
PageSource(url) == <<"page", url>>

\* click_contact_page(driver) is called on some page with some elements found.
InitContact ==
  /\ PipelineInit({<<RecA>>}, 0)
  /\ html = <<>>
  /\ extracted = [v \in Versions |-> {}]
  /\ xpc = [v \in Versions |-> "off"]
  /\ links \in UNION {SeqsOfLen(HrefSet, n) : n \in 0..MaxLinks}
  /\ current_url \in BaseUrls
  /\ cpc = "find"
  /\ idx = 1
  /\ lookupRaised = FALSE
  /\ navs = <<>>
  /\ content = <<>>

\* links = driver.find_elements(...) returns; "if links: for link in links".
FindElements ==
  /\ cpc = "find"
  /\ cpc' = "loop"
  /\ UNCHANGED <<links, current_url, idx, lookupRaised, navs, content>>
  /\ UNCHANGED <<mainVars, fileVars, histVars, poolVars, drvVars, workVars, envVars, xVars>>

\* find_elements or link.get_attribute raises: "Error clicking contact/about
\* link" is logged and the fallback follows.
LookupRaises ==
  /\ cpc = "find" \/ (cpc = "loop" /\ idx <= Len(links))
  /\ lookupRaised' = TRUE
  /\ cpc' = "fallback"
  /\ UNCHANGED <<links, current_url, idx, navs, content>>
  /\ UNCHANGED <<mainVars, fileVars, histVars, poolVars, drvVars, workVars, envVars, xVars>>

\* "if candidate and is_valid_url(candidate)" is false: the next element.
SkipLink ==
  /\ cpc = "loop"
  /\ idx <= Len(links)
  /\ ~(links[idx] # NoHref /\ is_valid_url(links[idx]))
  /\ idx' = idx + 1
  /\ UNCHANGED <<links, current_url, cpc, lookupRaised, navs, content>>
  /\ UNCHANGED <<mainVars, fileVars, histVars, poolVars, drvVars, workVars, envVars, xVars>>

\* The condition holds: driver.get(candidate), then return driver.page_source.
\* ok = FALSE: one of the two raises, and the fallback follows; moved tells
\* whether the session had left the page by then.
NavigateLink(ok, moved) ==
  /\ cpc = "loop"
  /\ idx <= Len(links)
  /\ links[idx] # NoHref /\ is_valid_url(links[idx])
  /\ ok => moved
  /\ navs' = Append(navs, [kind |-> "link", url |-> links[idx], ok |-> ok, base |-> current_url])
  /\ current_url' = IF moved THEN links[idx] ELSE current_url
  /\ content' = IF ok THEN PageSource(links[idx]) ELSE content
  /\ cpc' = IF ok THEN "returned" ELSE "fallback"
  /\ UNCHANGED <<links, idx, lookupRaised>>
  /\ UNCHANGED <<mainVars, fileVars, histVars, poolVars, drvVars, workVars, envVars, xVars>>

\* The loop ends without a return (or links was empty): the fallback follows.
LoopEnds ==
  /\ cpc = "loop"
  /\ idx > Len(links)
  /\ cpc' = "fallback"
  /\ UNCHANGED <<links, current_url, idx, lookupRaised, navs, content>>
  /\ UNCHANGED <<mainVars, fileVars, histVars, poolVars, drvVars, workVars, envVars, xVars>>

\* driver.get(fallback_url), then return driver.page_source.  ok = FALSE: one
\* of the two raises, "Fallback error" is logged and "" is returned.
FallbackNavigate(ok) ==
  /\ cpc = "fallback"
  /\ navs' = Append(navs, [kind |-> "fallback", url |-> FallbackUrl(current_url),
                             ok |-> ok, base |-> current_url])
  /\ current_url' = IF ok THEN FallbackUrl(current_url) ELSE current_url
  /\ content' = IF ok THEN PageSource(FallbackUrl(current_url)) ELSE <<>>
  /\ cpc' = "returned"
  /\ UNCHANGED <<links, idx, lookupRaised>>
  /\ UNCHANGED <<mainVars, fileVars, histVars, poolVars, drvVars, workVars, envVars, xVars>>

\* driver.current_url raises (the session is gone): "Fallback error" is
\* logged and "" is returned without any driver.get.
FallbackUrlRaises ==
  /\ cpc = "fallback"
  /\ content' = <<>>
  /\ cpc' = "returned"
  /\ UNCHANGED <<links, current_url, idx, lookupRaised, navs>>
  /\ UNCHANGED <<mainVars, fileVars, histVars, poolVars, drvVars, workVars, envVars, xVars>>

NextContact ==
  \/ FindElements
  \/ LookupRaises
  \/ SkipLink
  \/ \E ok \in BOOLEAN, moved \in BOOLEAN : NavigateLink(ok, moved)
  \/ LoopEnds
  \/ \E ok \in BOOLEAN : FallbackNavigate(ok)
  \/ FallbackUrlRaises

SpecContact == InitContact /\ [][NextContact]_vars

\* ================================================================ claims
\* The rows of a record are recognised by FIRSTNAME: the records of
\* RecordSet have distinct names, and WEBSITE does not identify a record
\* that came without a website.
HasEmailRow(rows, rec) ==
  \E j \in 1..Len(rows) : rows[j].FIRSTNAME = rec.clinic_name /\ rows[j].EMAIL # ""

\* The rows this run has added to output_rows.
NewRows == SubSeq(output_rows, nExisting + 1, Len(output_rows))

RECURSIVE SumLen(_, _)
SumLen(f, n) == IF n = 0 THEN 0 ELSE Len(f[n]) + SumLen(f, n - 1)

Busy == {w \in Threads : pc[w] # "idle"}

\* C1 (as claimed): in a run without --force that loaded the ledger, no
\* dispatched task belongs to a record that already has a row with a
\* non-empty email in the ledger the run started from.
C1_ResumeSkipsDone ==
  (pc_main # "idle" /\ ~force /\ loaded) =>
     \A i \in TaskIds : ~HasEmailRow(ledgerAtStart, tasks[i])

\* C2 (as claimed): a run without --force that loads the ledger written by
\* an uninterrupted run without --force in which every job returned
\* dispatches nothing and, when it is done, has left the ledger as it was.
C2_Idempotent ==
  (pc_main # "idle" /\ prevClean /\ ~force /\ loaded) =>
     /\ tasks = <<>>
     /\ pc_main = "done" => ledger = ledgerAtStart

\* C3: a job whose static fetch gave no address (empty page or failed
\* fetch) has had the base page navigation issued exactly once when
\* get_emails_for_website returns; the navigation is never issued twice for
\* one job, and it is already issued when the job is past the static fetch.
C3_RenderOnceAfterEmptyStatic ==
  \A w \in Threads :
     /\ trace[w].renderCalls <= 1
     /\ (trace[w].static \in {"empty", "failed"}
          /\ pc[w] \in {"render_nav", "contact", "returned", "raised"})
        => trace[w].renderCalls = 1

C3_Witness ==
  \E w \in Threads :
     pc[w] = "returned" /\ trace[w].static = "empty" /\ trace[w].renderCalls = 1

C5_ConcurrencyBound == Cardinality(Busy) <= max_workers

C5_Witness == Cardinality(Busy) = max_workers /\ queue # <<>>

\* C6 (as claimed): when a run without --force is done, every row with a
\* non-empty email that was in the ledger file before the run is still in it,
\* whether or not the ledger could be read.
C6_AppendConsistent ==
  (pc_main = "done" /\ ~force) =>
     \A j \in 1..Len(ledgerAtStart) :
        ledgerAtStart[j].EMAIL # "" =>
           \E k \in 1..Len(ledger) : ledger[k] = ledgerAtStart[j]

\* C7 (as claimed): when the process has ended, normally or through
\* handle_exit, every session that was created has been quit exactly once.
C7_ReleasedExactlyOnce ==
  pc_main \in {"done", "exited"} =>
     \A d \in 1..Len(sessions) : sessions[d].quits = 1

\* C8: the session a worker holds is one it created itself, and no session
\* has two navigations in flight.
C8_SessionExclusive ==
  /\ \A w \in Threads : driver[w] # 0 => sessions[driver[w]].creator = w
  /\ \A d \in 1..Len(sessions) :
        Cardinality({w \in Threads : pc[w] = "render_nav" /\ driver[w] = d}) <= 1

C8_Witness ==
  \E w1, w2 \in Threads :
     /\ w1 # w2
     /\ pc[w1] = "render_nav" /\ pc[w2] = "render_nav"
     /\ driver[w1] # driver[w2]

\* C9: an exception of one job never ends the scheduler; no task is started
\* twice; and when the run is done every task has been started once, the
\* rows of every task that returned are among the rows this run added, a
\* task that raised has added none, and the ledger holds output_rows.
C9_FailureIsolation ==
  /\ pc_main # "crashed"
  /\ \A t \in TaskIds : execs[t] <= 1
  /\ pc_main = "done" =>
       /\ ledger = output_rows
       /\ Len(NewRows) = SumLen(futRows, Len(tasks))
       /\ \A t \in TaskIds :
            /\ execs[t] = 1
            /\ status[t] \in {"returned", "raised"}
            /\ status[t] = "raised" =>
                 \A k \in 1..Len(NewRows) : NewRows[k].FIRSTNAME # tasks[t].clinic_name
            /\ status[t] = "returned" =>
                 \A i \in 1..Len(futRows[t]) :
                    \E k \in 1..Len(NewRows) : NewRows[k] = futRows[t][i]

C9_Witness ==
  /\ pc_main = "done"
  /\ \E t1, t2 \in TaskIds : status[t1] = "raised" /\ status[t2] = "returned"
  /\ ledger = output_rows

\* C10: a job that returns hands back one row per address of emails_set, or
\* exactly one row with an empty EMAIL when emails_set is empty, and once
\* its future is collected a row of it is in output_rows.
C10_AtLeastOneRow ==
  /\ \A w \in Threads :
        pc[w] = "returned" =>
           LET rs == rows_out[w]
               es == emails_set[w]
           IN /\ Len(rs) >= 1
              /\ \A i \in 1..Len(rs) : rs[i].FIRSTNAME = tasks[cur[w]].clinic_name
              /\ es # {} => /\ Len(rs) = Cardinality(es)
                            /\ {rs[i].EMAIL : i \in 1..Len(rs)} = es
              /\ es = {} => Len(rs) = 1 /\ rs[1].EMAIL = ""
  /\ \A t \in collected :
        status[t] = "returned" =>
           \E k \in 1..Len(NewRows) : NewRows[k].FIRSTNAME = tasks[t].clinic_name

C10_Witness ==
  \E w1, w2 \in Threads :
     /\ pc[w1] = "returned" /\ emails_set[w1] = {} /\ Len(rows_out[w1]) = 1
     /\ pc[w2] = "returned" /\ Len(rows_out[w2]) = 2

\* C11: session failure recovery.  A job whose navigation raised because the
\* session failed returns the empty set, and a job that has just obtained
\* its session from get_selenium_driver never holds a failed one: the worker
\* was given a freshly created session instead.
C11_FreshSessionAfterFailure ==
  \A w \in Threads :
     /\ (pc[w] = "returned" /\ trace[w].render = "loadfail") => emails_set[w] = {}
     /\ pc[w] = "enhance" => ~SessionFailed(driver[w])

\* C12: interrupt-safe resume.  Once a signal has ended the run (the
\* process is winding down or has exited through handle_exit), the ledger
\* file holds exactly what it held when the run began, that is, what the
\* previous run left.
C12_InterruptKeepsLedger ==
  pc_main \in {"draining", "exited"} => ledger = ledgerAtStart

\* C13: transient static-fetch failure.  A static fetch that raised or got
\* an error status counts as the empty set (nothing is raised into the
\* job), and the orchestrator goes on to the rendering strategy.
C13_FetchFailureEscalates ==
  \A w \in Threads :
     trace[w].resp \in {"raised", "non2xx"} =>
        /\ trace[w].fetched = {}
        /\ trace[w].renderCalls = 1
        /\ pc[w] # "raised" \/ trace[w].render = "raised"

\* C17: ledger read failure.  In a run without --force whose read of the
\* ledger failed, process_csv goes on: no pre-existing row is kept, every
\* record of the input is a task (nothing is skipped), and the run can reach
\* its end.
C17_ReadFailureMeansFullRescrape ==
  (pc_main # "idle" /\ readFailed) =>
     /\ ~force
     /\ nExisting = 0
     /\ \A i \in 1..Len(input) : \E t \in TaskIds : tasks[t] = input[i]
     /\ pc_main \in {"pool", "release", "writing", "done", "draining", "exited"}
     /\ pc_main = "done" => Len(ledger) = SumLen(futRows, Len(tasks))

\* A run after a failed read has completed although the ledger held rows.
C17_Witness ==
  /\ readFailed
  /\ pc_main = "done"
  /\ ledgerAtStart # <<>>
  /\ ProcessedWebsites(ledgerAtStart) # {}
  /\ Len(tasks) = Len(input)

\* C18: persist ordering.  A run opens the ledger for writing at most once,
\* and exactly once when it reaches its end; until it does, the file holds
\* what it held at the start of the run; and once it has, every task has
\* finished, every worker is idle and every session has been asked to quit.
C18_PersistAfterJobsAndRelease ==
  pc_main # "idle" =>
     /\ writes <= 1
     /\ pc_main = "done" => writes = 1
     /\ pc_main \in {"pool", "release", "draining"} => writes = 0
     /\ writes = 0 => ledger = ledgerAtStart
     /\ writes >= 1 =>
          /\ \A t \in TaskIds : status[t] \in {"returned", "raised"}
          /\ \A w \in Threads : pc[w] = "idle"
          /\ \A d \in 1..Len(sessions) : sessions[d].quits >= 1

\* The ledger is open for writing in a run that had a job and a session,
\* over a file that held rows.
C18_Witness ==
  /\ pc_main = "writing"
  /\ writes = 1
  /\ Len(tasks) >= 1
  /\ Len(sessions) >= 1
  /\ ledgerAtStart # <<>>

\* C19: lazy one-session-per-worker.  A thread that has not yet called
\* get_selenium_driver has created no session; no thread creates two; the
\* sessions never outnumber the worker threads; a job past
\* get_selenium_driver works with the session its own thread created; and
\* every session is in selenium_drivers, or its creator is about to append
\* it.
C19_LazyOneSessionPerWorker ==
  /\ \A d \in 1..Len(sessions) : sessions[d].creator <= threads
  /\ \A w \in Threads : pc[w] \in {"idle", "setup"} /\ thread_local[w] = 0 =>
        \A d \in 1..Len(sessions) : sessions[d].creator # w
  /\ \A d1, d2 \in 1..Len(sessions) :
        sessions[d1].creator = sessions[d2].creator => d1 = d2
  /\ Len(sessions) <= threads
  /\ \A w \in Threads : pc[w] \in {"enhance", "static", "render_nav", "contact"} =>
        /\ driver[w] \in 1..Len(sessions)
        /\ sessions[driver[w]].creator = w
        /\ thread_local[w] = driver[w]
  /\ \A d \in 1..Len(sessions) :
        \/ \E i \in 1..Len(selenium_drivers) : selenium_drivers[i] = d
        \/ pc[sessions[d].creator] = "register" /\ driver[sessions[d].creator] = d

\* A thread is at its second job with the session it created in its first,
\* and no other session exists.
C19_Witness ==
  \E w \in Threads :
     /\ pc[w] = "render_nav"
     /\ execs[cur[w]] = 1
     /\ \E t \in TaskIds : t # cur[w] /\ status[t] \in {"returned", "raised"}
     /\ threads = 1
     /\ Len(sessions) = 1
     /\ selenium_drivers = <<driver[w]>>

\* C20: static success is terminal.  When the static fetch found addresses,
\* the job's result is exactly that set and no page was rendered; the base
\* page is rendered only after the static fetch yielded nothing, and the
\* contact page is visited only after the rendered base page yielded
\* nothing.
C20_StaticSuccessTerminal ==
  \A w \in Threads :
     /\ trace[w].fetched # {} =>
          /\ trace[w].renderCalls = 0
          /\ trace[w].contactCalls = 0
          /\ trace[w].render = "none"
          /\ pc[w] = "returned"
          /\ emails_set[w] = trace[w].fetched
     /\ (trace[w].renderCalls >= 1 \/ pc[w] \in {"render_nav", "contact"}) =>
          trace[w].static \in {"empty", "failed"} /\ trace[w].fetched = {}
     /\ (trace[w].contactCalls >= 1 \/ pc[w] = "contact") => trace[w].render = "empty"

\* One job returned what the static fetch found, another went on to the
\* contact page after an empty static fetch and an empty base page.
C20_Witness ==
  \E w1, w2 \in Threads :
     /\ pc[w1] = "returned" /\ trace[w1].fetched = {"e1", "e2"} /\ trace[w1].renderCalls = 0
     /\ pc[w2] = "returned" /\ trace[w2].static = "empty" /\ trace[w2].contactCalls = 1

\* C14: noise-word filter.  No string either function has collected, in
\* its free-text pass or from a mailto link, holds logo, icon or banner in
\* any letter case.
C14_NoNoiseWordInOutput ==
  \A v \in Versions : \A s \in extracted[v] : ~HasNoise(s, NoiseWords)

\* A string is an address: local-part@domain.tld and nothing else.
IsEmail(s) == Len(s) >= 5 /\ MatchEnd(s, 1) = Len(s)

\* C15: output grammar.  Every string either function has collected is an
\* address local-part@domain.tld, whatever the mailto hrefs of the page hold.
C15_OutputMatchesGrammar ==
  \A v \in Versions : \A s \in extracted[v] : IsEmail(s)

\* C16: image-extension guard.  After the free-text pass, an address written
\* in the page is in the result exactly when it does not itself end in an
\* image extension and holds no noise word; and in the returned set is every
\* noise-free address of a mailto link, taken up to the first "?".
C16_ImageGuardExact ==
  \A v \in Versions :
     /\ xpc[v] = "mailto" =>
          \A i \in 1..Len(html) : MatchEnd(html, i) # 0 =>
             LET m == SubSeq(html, i, MatchEnd(html, i))
             IN m \in extracted[v] <=>
                  (Lower(m[Len(m)]) \notin ImageExts /\ ~HasNoise(m, NoiseWords))
     /\ xpc[v] = "returned" =>
          \A href \in MailtoHrefs(html) :
             LET a == BeforeFirst(Tail(href), "?")
             IN (IsEmail(a) /\ ~HasNoise(a, NoiseWords)) => a \in extracted[v]

\* C25: extractor equivalence.  Called on the same page, the function of
\* email_spider.py and the function of utils.py return the same set.
C25_ExtractorsAgree ==
  (\A v \in Versions : xpc[v] = "returned") => extracted["spider"] = extracted["utils"]

\* C23: exactly-once dispatch within a run.  No two tasks of a run share an
\* identifier; no task is started more than once or is in the hands of two
\* workers; a task still queued has not been started, and a task that is
\* running or finished has been started exactly once.
C23_ExactlyOnceDispatch ==
  /\ \A t1, t2 \in TaskIds :
        Identifier(tasks[t1]) = Identifier(tasks[t2]) => t1 = t2
  /\ \A t \in TaskIds :
        /\ execs[t] <= 1
        /\ Cardinality({w \in Threads : cur[w] = t}) <= 1
        /\ status[t] = "pending" => execs[t] = 0
        /\ status[t] \in {"running", "returned", "raised"} => execs[t] = 1
        /\ status[t] = "running" <=> \E w \in Threads : cur[w] = t

\* An input file that names the same record twice has led to one task, and
\* that task has been run.
C23_Witness ==
  /\ Len(input) = 2
  /\ input[1] = input[2]
  /\ Len(tasks) = 1
  /\ status[1] = "returned"
  /\ execs[1] = 1

\* C22: forced re-scrape.  In a run with --force the ledger is not read, no
\* row of it is kept and every record of the input is a task; when the run
\* has ended, the file holds the rows the finished tasks of this run
\* returned and no others.
C22_ForceDiscardsLedger ==
  (pc_main # "idle" /\ force) =>
     /\ ~loaded /\ ~readFailed
     /\ nExisting = 0
     /\ \A i \in 1..Len(input) : \E t \in TaskIds : tasks[t] = input[i]
     /\ pc_main = "done" =>
          /\ Len(ledger) = SumLen(futRows, Len(tasks))
          /\ \A j \in 1..Len(ledger) :
                \E t \in TaskIds : \E k \in 1..Len(futRows[t]) :
                   status[t] = "returned" /\ ledger[j] = futRows[t][k]

\* A forced run over a ledger that held rows has ended; its only job raised,
\* and the file holds no row any more.
C22_Witness ==
  /\ force
  /\ pc_main = "done"
  /\ ledgerAtStart # <<>>
  /\ Len(tasks) = 1
  /\ status[1] = "raised"
  /\ ledger = <<>>

\* C24: no use after release.  No worker is inside the rendering steps of a
\* job (driver.get issued and its page about to be read, or inside
\* click_contact_page) on a session that has been quit, and no session was
\* created after handle_exit had released the sessions.
C24_NoUseAfterRelease ==
  /\ \A w \in Threads :
        pc[w] \in {"render_nav", "contact"} => ~SessionQuit(driver[w])
  /\ \A d \in 1..Len(sessions) : ~sessions[d].afterExit

\* A link target with a scheme and a network location.
ValidTarget(u) == u.scheme # "" /\ u.netloc # ""

\* The driver.get calls click_contact_page made, by kind.
NavsOf(kind) == {n \in 1..Len(navs) : navs[n].kind = kind}

\* Every navigation to an element went to the first element with a valid
\* target, there was at most one, and every fallback navigation went to the
\* URL the session was on, trailing slash stripped, plus "/contact".
NavsWellFormed ==
  /\ Cardinality(NavsOf("link")) <= 1
  /\ \A n \in NavsOf("link") :
        /\ ValidTarget(navs[n].url)
        /\ \E i \in 1..Len(links) :
              /\ links[i] = navs[n].url
              /\ \A j \in 1..(i - 1) : ~ValidTarget(links[j])
  /\ \A n \in NavsOf("fallback") :
        /\ navs[n].url.scheme = navs[n].base.scheme
        /\ navs[n].url.netloc = navs[n].base.netloc
        /\ navs[n].url.path = Rstrip(navs[n].base.path) \o <<"/contact">>

\* C21 as stated: click_contact_page returns (it never raises); it has
\* navigated to the first element with a valid target whenever there is one,
\* and to no other element; when there is none or that navigation failed it
\* has navigated exactly once to the fallback URL, and otherwise not at all;
\* and when the fallback navigation failed it returns empty content.
C21_ContactFallback ==
  /\ cpc \in {"off", "find", "loop", "fallback", "returned"}
  /\ NavsWellFormed
  /\ cpc = "returned" =>
       LET someValid == \E i \in 1..Len(links) : ValidTarget(links[i])
           linkFailed == \E n \in NavsOf("link") : ~navs[n].ok
       IN /\ someValid => NavsOf("link") # {}
          /\ Cardinality(NavsOf("fallback")) = (IF ~someValid \/ linkFailed THEN 1 ELSE 0)
          /\ (\E n \in NavsOf("fallback") : ~navs[n].ok) => content = <<>>

\* C21, amended: as above, except that an exception while the elements are
\* found or read also leads to the fallback, with no element navigated to,
\* and that the fallback navigates at most once: not at all when reading
\* the current URL raises.  Empty content is returned exactly when the
\* fallback was entered and did not bring a page.
C21_ContactFallbackBestEffort ==
  /\ cpc \in {"off", "find", "loop", "fallback", "returned"}
  /\ NavsWellFormed
  /\ cpc = "returned" =>
       LET someValid == \E i \in 1..Len(links) : ValidTarget(links[i])
           linkFailed == \E n \in NavsOf("link") : ~navs[n].ok
           fellBack == ~someValid \/ linkFailed \/ lookupRaised
           gotPage == \E n \in NavsOf("fallback") : navs[n].ok
       IN /\ (someValid /\ ~lookupRaised) => NavsOf("link") # {}
          /\ Cardinality(NavsOf("fallback")) <= 1
          /\ ~fellBack => NavsOf("fallback") = {}
          /\ ~fellBack => \E n \in NavsOf("link") : navs[n].ok /\ content = PageSource(navs[n].url)
          /\ fellBack /\ gotPage =>
               \E n \in NavsOf("fallback") : content = PageSource(navs[n].url)
          /\ content = <<>> <=> (fellBack /\ ~gotPage)

\* The second element was the first with a valid target; navigating to it
\* failed, and the fallback, built from a URL ending in a slash, brought a
\* page.
C21_Witness ==
  /\ cpc = "returned"
  /\ Len(links) = 2
  /\ ~ValidTarget(links[1])
  /\ Len(navs) = 2
  /\ navs[1].kind = "link" /\ navs[1].url = links[2] /\ ~navs[1].ok
  /\ navs[2].kind = "fallback" /\ navs[2].ok
  /\ navs[2].base.path # <<>> /\ navs[2].base.path[Len(navs[2].base.path)] = "/"
  /\ content = PageSource(navs[2].url)
====
